---- MODULE Spec2Model ----
(***************************************************************************)
(* A model of pypdfbookmarks.py: the BookmarkNode tree (a heap of objects  *)
(* with parent / children / title / page_number fields), its mutating      *)
(* methods, the JSON serialisation (get_dict / get_json / load_dict /      *)
(* load_json) and the PDF bridge (load_from_pdf, add_to_pdf, write_pdf).   *)
(***************************************************************************)
EXTENDS Integers, Sequences, FiniteSets, TLC

(***************************************************************************)
(* Bounds of the model.                                                    *)
(***************************************************************************)
\* objects the session may construct in the runs with arbitrary calls
MaxNodes == 3
\* entries all children lists together may hold in those runs
MaxKids == 3
\* objects of the editing runs (every bookmark added once, then edited)
MaxEditNodes == 3
\* nodes of the tree in the JSON runs
MaxJsonNodes == 3
\* pages of a document, and entries of its outline
MaxPages == 3
MaxEntries == 3

(***************************************************************************)
(* Python values.                                                          *)
(***************************************************************************)
\* the reference None (BookmarkNode.parent of a root); objects are 1, 2, ...
NoneRef == 0

\* JSON / Python scalars and containers, tagged with their type
JNull == [k |-> "null", v |-> 0]
JStr(s) == [k |-> "str", v |-> s]
JInt(i) == [k |-> "int", v |-> i]
JArr(a) == [k |-> "arr", v |-> a]
JObj(f) == [k |-> "obj", v |-> f]

(***************************************************************************)
(* Python list operations used by the methods.                             *)
(***************************************************************************)
\* list.count(x)
Count(s, x) == Cardinality({i \in 1..Len(s) : s[i] = x})

\* list.index(x), 1-based; 0 stands for the ValueError of an absent element
IndexOf(s, x) ==
  IF \E i \in 1..Len(s) : s[i] = x
  THEN CHOOSE i \in 1..Len(s) : s[i] = x /\ \A j \in 1..(i-1) : s[j] # x
  ELSE 0

\* the list without any occurrence of x
Without(s, x) == SelectSeq(s, LAMBDA y : y # x)

\* the elements of a list
Range(s) == {s[i] : i \in 1..Len(s)}

\* list.pop(i) for a valid 1-based position: the list that is left
RemoveAt(s, i) == [j \in 1..(Len(s)-1) |-> IF j < i THEN s[j] ELSE s[j+1]]

\* list.remove(x) where x is present: the first occurrence goes
RemoveFirst(s, x) == RemoveAt(s, IndexOf(s, x))

\* the position (0-based) list.insert(i, x) really inserts at: a negative
\* index counts from the end, and both ends clamp
ClampIndex(len, i) ==
  LET j == IF i < 0 THEN i + len ELSE i
  IN  IF j < 0 THEN 0 ELSE IF j > len THEN len ELSE j

\* list.insert(i, x), i a Python index
InsertAt(s, i, x) ==
  LET p == ClampIndex(Len(s), i)
  IN  [j \in 1..(Len(s)+1) |->
         IF j <= p THEN s[j] ELSE IF j = p + 1 THEN x ELSE s[j-1]]

(***************************************************************************)
(* State.                                                                  *)
(***************************************************************************)
VARIABLES
  parent,       \* parent[n]: BookmarkNode.parent of object n (NoneRef: None)
  children,     \* children[n]: BookmarkNode.children of object n
  title,        \* title[n]: BookmarkNode.title
  page_number,  \* page_number[n]: BookmarkNode.page_number
  tree,         \* the global `tree`: the root object (NoneRef before a load)
  pdfreader,    \* the global `pdfreader`: the open document, or NoDocument
  output,       \* the PDF written last by write_pdf, or NoOutput
  saved,        \* the text written last by save_bookmarks
  lastOp        \* the call the session made last, and how it came back

heap == <<parent, children, title, page_number>>
files == <<pdfreader, output, saved>>
vars == <<parent, children, title, page_number, tree, pdfreader, output, saved, lastOp>>

\* the objects constructed so far
Nodes == 1..Len(parent)

\* a call that returned normally / after printing a message / by raising
Returned(op, n) == [op |-> op, n |-> n, range |-> <<>>, printed |-> FALSE, raised |-> "none"]
Reported(op, n) == [op |-> op, n |-> n, range |-> <<>>, printed |-> TRUE, raised |-> "none"]
Raised(op, n, e) == [op |-> op, n |-> n, range |-> <<>>, printed |-> FALSE, raised |-> e]
PrintedAndRaised(op, n, e) == [op |-> op, n |-> n, range |-> <<>>, printed |-> TRUE, raised |-> e]

\* pdfreader = None, nothing written, nothing saved
NoDocument == [pages |-> <<>>, outlines |-> <<>>, open |-> FALSE]
NoOutput == [pages |-> <<>>, bookmarks |-> <<>>, written |-> FALSE]
NoFiles == pdfreader = NoDocument /\ output = NoOutput /\ saved = <<>>

(***************************************************************************)
(* The tree-editing methods.                                               *)
(***************************************************************************)
TitlesOfSession == {JStr("A")}

\* tree = BookmarkNode("Root") with nothing loaded
InitTree ==
  /\ parent = <<NoneRef>>
  /\ children = << <<>> >>
  /\ title = <<JStr("Root")>>
  /\ page_number = <<0>>
  /\ tree = 1
  /\ NoFiles
  /\ lastOp = Returned("init", 1)

\* node = BookmarkNode(t) typed in the session
Construct(t) ==
  /\ parent' = Append(parent, NoneRef)
  /\ children' = Append(children, <<>>)
  /\ title' = Append(title, t)
  /\ page_number' = Append(page_number, 0)
  /\ lastOp' = Returned("new", Len(parent) + 1)
  /\ UNCHANGED <<tree, files>>

\* p.add_child(c)
AddChild(p, c) ==
  /\ children' = [children EXCEPT ![p] = Append(@, c)]
  /\ parent' = [parent EXCEPT ![c] = p]
  /\ lastOp' = Returned("add_child", c)
  /\ UNCHANGED <<title, page_number, tree, files>>

\* a slip of set_parent: the node is never taken out of its old parent's list
SetParentNoDetach(n, p) ==
  /\ children' = [children EXCEPT ![p] = Append(@, n)]
  /\ parent' = [parent EXCEPT ![n] = p]
  /\ lastOp' = Returned("set_parent", n)
  /\ UNCHANGED <<title, page_number, tree, files>>

\* n.set_parent(p): add_child first, then list.remove on the old parent
SetParent(n, p) ==
  LET old == parent[n]
      added == [children EXCEPT ![p] = Append(@, n)]
  IN  /\ parent' = [parent EXCEPT ![n] = p]
      /\ IF old = NoneRef
         THEN /\ children' = added
              /\ lastOp' = Returned("set_parent", n)
         ELSE IF IndexOf(added[old], n) = 0
         THEN /\ children' = added
              /\ lastOp' = Raised("set_parent", n, "ValueError")
         ELSE /\ children' = [added EXCEPT ![old] = RemoveFirst(@, n)]
              /\ lastOp' = Returned("set_parent", n)
      /\ UNCHANGED <<title, page_number, tree, files>>

\* n.move_to(i)
MoveTo(n, i) ==
  /\ IF parent[n] = NoneRef
     THEN /\ lastOp' = Reported("move_to", n)
          /\ UNCHANGED children
     ELSE LET sibs == children[parent[n]]
              at == IndexOf(sibs, n)
          IN  IF at = 0
              THEN /\ lastOp' = Raised("move_to", n, "ValueError")
                   /\ UNCHANGED children
              ELSE /\ children' = [children EXCEPT
                                     ![parent[n]] = InsertAt(RemoveAt(sibs, at), i, n)]
                   /\ lastOp' = Returned("move_to", n)
  /\ UNCHANGED <<parent, title, page_number, tree, files>>

\* n.remove(): the message for the root is printed and the method goes on
Remove(n) ==
  /\ IF parent[n] = NoneRef
     THEN /\ lastOp' = PrintedAndRaised("remove", n, "AttributeError")
          /\ UNCHANGED children
     ELSE IF IndexOf(children[parent[n]], n) = 0
     THEN /\ lastOp' = Raised("remove", n, "ValueError")
          /\ UNCHANGED children
     ELSE /\ children' = [children EXCEPT ![parent[n]] = RemoveFirst(@, n)]
          /\ lastOp' = Returned("remove", n)
  /\ UNCHANGED <<parent, title, page_number, tree, files>>

\* the indexes the session passes to n.move_to: from below the negative
\* ones that count from the end to beyond the end of the siblings
Indexes(n) ==
  LET count == IF parent[n] = NoneRef THEN 0 ELSE Len(children[parent[n]])
  IN  (0 - count - 1)..(count + 1)

RECURSIVE SumLen(_, _)
SumLen(ch, n) == IF n = 0 THEN 0 ELSE Len(ch[n]) + SumLen(ch, n - 1)

\* the entries of all children lists together
Listed == SumLen(children, Len(children))

\* a session that calls the methods with any arguments
Next ==
  \/ \E t \in TitlesOfSession : Len(parent) < MaxNodes /\ Construct(t)
  \/ \E p \in Nodes, c \in Nodes : Listed < MaxKids /\ AddChild(p, c)
  \/ \E n \in Nodes, p \in Nodes : Listed < MaxKids /\ SetParent(n, p)
  \/ \E n \in Nodes : \E i \in Indexes(n) : MoveTo(n, i)
  \/ \E n \in Nodes : Remove(n)

Spec == InitTree /\ [][Next]_vars

\* c = BookmarkNode(t); p.add_child(c): the session adds a new bookmark
NewBookmark(p, t) ==
  /\ parent' = Append(parent, p)
  /\ children' = [Append(children, <<>>) EXCEPT ![p] = Append(@, Len(parent) + 1)]
  /\ title' = Append(title, t)
  /\ page_number' = Append(page_number, 0)
  /\ lastOp' = Returned("add_child", Len(parent) + 1)
  /\ UNCHANGED <<tree, files>>

\* a session that adds every bookmark once and then edits the tree
NextEdit ==
  \/ \E p \in Nodes, t \in TitlesOfSession : Len(parent) < MaxEditNodes /\ NewBookmark(p, t)
  \/ \E n \in Nodes, p \in Nodes : SetParent(n, p)
  \/ \E n \in Nodes : \E i \in Indexes(n) : MoveTo(n, i)
  \/ \E n \in Nodes : Remove(n)

SpecEdit == InitTree /\ [][NextEdit]_vars

(***************************************************************************)
(* Claims about the tree-editing methods.                                  *)
(***************************************************************************)
RECURSIVE ReachFrom(_, _, _)
ReachFrom(ch, S, k) ==
  IF k = 0 THEN S
  ELSE ReachFrom(ch, S \cup UNION {Range(ch[m]) : m \in S}, k - 1)

\* the nodes reached from n by one or more steps along children
Descendants(n) == ReachFrom(children, Range(children[n]), Len(children))

RECURSIVE ReachesNone(_, _)
ReachesNone(n, k) ==
  IF n = NoneRef THEN TRUE
  ELSE IF k = 0 THEN FALSE
  ELSE ReachesNone(parent[n], k - 1)

\* C2: every node reachable from the root other than the root has exactly one
\* parent, its parent reference is that node, it is listed exactly once in
\* that parent's children and in no other list; the root's parent is None.
C2_StructuralInvariant ==
  /\ parent[tree] = NoneRef
  /\ \A x \in Descendants(tree) \ {tree} :
       /\ parent[x] # NoneRef
       /\ Count(children[parent[x]], x) = 1
       /\ \A q \in Nodes \ {parent[x]} : Count(children[q], x) = 0

\* C3: no node is reachable from itself along children, and the parent
\* references lead from every node to a node without parent in finitely many
\* steps, whatever the arguments of add_child and set_parent were.
C3_Acyclic ==
  \A n \in Nodes : n \notin Descendants(n) /\ ReachesNone(n, Len(parent))

\* n is the root of a tree, or listed once, in its parent's children only
InTree(n) ==
  IF parent[n] = NoneRef
  THEN \A q \in Nodes : Count(children[q], n) = 0
  ELSE /\ Count(children[parent[n]], n) = 1
       /\ \A q \in Nodes \ {parent[n]} : Count(children[q], n) = 0

\* what C4 says of n.set_parent(p) apart from the former parent's list
ReparentCommon(n, p) ==
  /\ Count(children'[p], n) = 1
  /\ children'[p][Len(children'[p])] = n
  /\ Without(children'[p], n) = Without(children[p], n)
  /\ parent'[n] = p
  /\ \A q \in Nodes \ {p, parent[n]} : children'[q] = children[q]
  /\ parent[n] # NoneRef => Without(children'[parent[n]], n) = Without(children[parent[n]], n)

\* C4 as stated: after n.set_parent(p), n is once in p.children, as its last
\* element, and zero times in the children of its former parent; n.parent is
\* p; the other lists and the order of the former parent's other children
\* are unchanged.
C4_ReparentAsStated ==
  [][\A n \in Nodes, p \in Nodes :
       (lastOp'.op = "set_parent" /\ SetParent(n, p) /\ InTree(n)) =>
         /\ ReparentCommon(n, p)
         /\ parent[n] # NoneRef => Count(children'[parent[n]], n) = 0]_vars

\* C4 amended: the same, where n leaves the former parent's list only when
\* the former parent is another node than p (else n moves to the end of it).
C4_Reparent ==
  [][\A n \in Nodes, p \in Nodes :
       (lastOp'.op = "set_parent" /\ SetParent(n, p) /\ InTree(n)) =>
         /\ ReparentCommon(n, p)
         /\ (parent[n] # NoneRef /\ parent[n] # p) => Count(children'[parent[n]], n) = 0]_vars

\* set_parent has moved a node from the root to under one of its siblings
C4_Witness ==
  /\ lastOp.op = "set_parent" /\ lastOp.raised = "none"
  /\ LET n == lastOp.n
     IN  /\ parent[n] \notin {NoneRef, tree, n}
         /\ parent[parent[n]] = tree
         /\ children[parent[n]] = <<n>>
         /\ children[tree] = <<parent[n]>>

\* C5: move_to and remove on a node without parent report the condition,
\* return normally and leave every node's fields unchanged.
C5_RootOpsReported ==
  [][\A n \in Nodes :
       (parent[n] = NoneRef /\ (Remove(n) \/ \E i \in Indexes(n) : MoveTo(n, i))) =>
         /\ lastOp'.printed /\ lastOp'.raised = "none"
         /\ UNCHANGED heap]_vars

\* C6: in a well-formed tree, move_to(i) on a node with a parent is rejected
\* with an error and leaves the siblings unchanged when i is negative or
\* greater than the sibling count; otherwise the node ends at position i,
\* with the same elements and the other siblings in their order.
C6_MoveToBounds ==
  [][\A n \in Nodes : \A i \in Indexes(n) :
       (parent[n] # NoneRef /\ C2_StructuralInvariant /\ C3_Acyclic /\ MoveTo(n, i)) =>
         LET before == children[parent[n]]
             after == children'[parent[n]]
         IN  IF i < 0 \/ i > Len(before)
             THEN lastOp'.raised # "none" /\ after = before
             ELSE /\ lastOp'.raised = "none"
                  /\ Len(after) = Len(before)
                  /\ i + 1 <= Len(after) /\ after[i + 1] = n
                  /\ Without(after, n) = Without(before, n)]_vars

(***************************************************************************)
(* JSON: get_dict / get_json / load_dict / load_json.                      *)
(***************************************************************************)
\* the heap as one value, for the methods that are computed recursively
Heap == [parent |-> parent, children |-> children, title |-> title,
         page_number |-> page_number]

\* the heap after the step
HeapAfter == [parent |-> parent', children |-> children', title |-> title',
              page_number |-> page_number']

\* BookmarkNode.__init__(title) on a heap value: the new object comes last
NewObject(H, t) ==
  [parent |-> Append(H.parent, NoneRef),
   children |-> Append(H.children, <<>>),
   title |-> Append(H.title, t),
   page_number |-> Append(H.page_number, 0)]

\* BookmarkNode.add_child on a heap value
HeapAddChild(H, p, c) ==
  [H EXCEPT !.children[p] = Append(@, c), !.parent[c] = p]

\* a dict is the sequence of its <<key, value>> items, in insertion order
HasKey(d, key) == \E i \in 1..Len(d) : d[i][1] = key
Lookup(d, key) == d[CHOOSE i \in 1..Len(d) : d[i][1] = key][2]
Store(d, key, val) ==
  IF HasKey(d, key)
  THEN [i \in 1..Len(d) |-> IF d[i][1] = key THEN <<key, val>> ELSE d[i]]
  ELSE Append(d, <<key, val>>)

\* the page number get_dict writes
ToJsonPage(p) == p + 1

\* a slip of load_dict: the page number stored as it is read
FromJsonPageAsRead(v) == v

\* the page number load_dict stores
FromJsonPage(v) == v - 1

RECURSIVE GetDict(_, _)
\* BookmarkNode.get_dict
GetDict(H, n) ==
  JObj(<< <<"title", H.title[n]>>,
          <<"page_number", JInt(ToJsonPage(H.page_number[n]))>>,
          <<"children", JArr([i \in 1..Len(H.children[n]) |->
                                 GetDict(H, H.children[n][i])])>> >>)

\* the text is the sequence of its tokens: punctuation and scalars
Punct(c) == [k |-> "punct", v |-> c]

RECURSIVE Dumps(_), DumpsItems(_, _), DumpsMembers(_, _)
\* json.dumps
Dumps(x) ==
  IF x.k = "obj" THEN <<Punct("{")>> \o DumpsMembers(x.v, 1) \o <<Punct("}")>>
  ELSE IF x.k = "arr" THEN <<Punct("[")>> \o DumpsItems(x.v, 1) \o <<Punct("]")>>
  ELSE <<x>>
DumpsItems(a, i) ==
  IF i > Len(a) THEN <<>>
  ELSE (IF i > 1 THEN <<Punct(",")>> ELSE <<>>) \o Dumps(a[i]) \o DumpsItems(a, i + 1)
DumpsMembers(m, i) ==
  IF i > Len(m) THEN <<>>
  ELSE (IF i > 1 THEN <<Punct(",")>> ELSE <<>>)
       \o <<JStr(m[i][1]), Punct(":")>> \o Dumps(m[i][2]) \o DumpsMembers(m, i + 1)

\* BookmarkNode.get_json
GetJson(H, n) == Dumps(GetDict(H, n))

\* json.loads: [ok, v, i], the value read and the position after it
ParseFailed == [ok |-> FALSE, v |-> JNull, i |-> 0]
IsPunct(t, i, c) == i <= Len(t) /\ t[i].k = "punct" /\ t[i].v = c

RECURSIVE ParseValue(_, _), ParseItems(_, _, _), ParseMembers(_, _, _)
ParseValue(t, i) ==
  IF i > Len(t) THEN ParseFailed
  ELSE IF t[i].k # "punct" THEN [ok |-> TRUE, v |-> t[i], i |-> i + 1]
  ELSE IF t[i].v = "["
  THEN IF IsPunct(t, i + 1, "]")
       THEN [ok |-> TRUE, v |-> JArr(<<>>), i |-> i + 2]
       ELSE ParseItems(t, i + 1, <<>>)
  ELSE IF t[i].v = "{"
  THEN IF IsPunct(t, i + 1, "}")
       THEN [ok |-> TRUE, v |-> JObj(<<>>), i |-> i + 2]
       ELSE ParseMembers(t, i + 1, <<>>)
  ELSE ParseFailed
ParseItems(t, i, acc) ==
  LET r == ParseValue(t, i)
  IN  IF ~r.ok THEN ParseFailed
      ELSE IF IsPunct(t, r.i, ",") THEN ParseItems(t, r.i + 1, Append(acc, r.v))
      ELSE IF IsPunct(t, r.i, "]")
      THEN [ok |-> TRUE, v |-> JArr(Append(acc, r.v)), i |-> r.i + 1]
      ELSE ParseFailed
ParseMembers(t, i, acc) ==
  IF i > Len(t) \/ t[i].k # "str" \/ ~IsPunct(t, i + 1, ":") THEN ParseFailed
  ELSE LET r == ParseValue(t, i + 2)
       IN  IF ~r.ok THEN ParseFailed
           ELSE IF IsPunct(t, r.i, ",")
           THEN ParseMembers(t, r.i + 1, Store(acc, t[i].v, r.v))
           ELSE IF IsPunct(t, r.i, "}")
           THEN [ok |-> TRUE, v |-> JObj(Store(acc, t[i].v, r.v)), i |-> r.i + 1]
           ELSE ParseFailed

\* json.loads of the whole text (anything after the value is an error)
Loads(t) ==
  LET r == ParseValue(t, 1)
  IN  IF r.ok /\ r.i = Len(t) + 1 THEN r ELSE ParseFailed

RECURSIVE LoadDict(_, _, _), LoadKids(_, _, _, _)
\* BookmarkNode.load_dict: [H, err], the heap as the call leaves it and the
\* exception it raised ("none": it returned)
LoadDict(H, n, d) ==
  IF d.k # "obj" THEN [H |-> H, err |-> "TypeError"]
  ELSE IF ~HasKey(d.v, "title") THEN [H |-> H, err |-> "KeyError"]
  ELSE
    LET H1 == [H EXCEPT !.title[n] = Lookup(d.v, "title")]
    IN  IF ~HasKey(d.v, "page_number") THEN [H |-> H1, err |-> "KeyError"]
        ELSE IF Lookup(d.v, "page_number").k # "int" THEN [H |-> H1, err |-> "TypeError"]
        ELSE
          LET H2 == [H1 EXCEPT !.page_number[n] = FromJsonPage(Lookup(d.v, "page_number").v),
                               !.children[n] = <<>>]
          IN  IF ~HasKey(d.v, "children") THEN [H |-> H2, err |-> "KeyError"]
              ELSE
                LET c == Lookup(d.v, "children")
                IN  IF c.k = "arr" THEN LoadKids(H2, n, c.v, 1)
                    \* iterating a dict gives its keys, a str its characters
                    ELSE IF c.k = "obj"
                    THEN LoadKids(H2, n, [i \in 1..Len(c.v) |-> JStr(c.v[i][1])], 1)
                    ELSE IF c.k = "str"
                    THEN IF c.v = "" THEN [H |-> H2, err |-> "none"]
                         ELSE LoadKids(H2, n, <<c>>, 1)
                    ELSE [H |-> H2, err |-> "TypeError"]
\* the loop of load_dict from its i-th round on
LoadKids(H, n, a, i) ==
  IF i > Len(a) THEN [H |-> H, err |-> "none"]
  ELSE LET c == Len(H.parent) + 1
           r == LoadDict(HeapAddChild(NewObject(H, JNull), n, c), c, a[i])
       IN  IF r.err # "none" THEN r ELSE LoadKids(r.H, n, a, i + 1)

RECURSIVE Preorder(_, _), PreorderKids(_, _, _)
\* the nodes of the tree under n, depth first, children in list order
Preorder(H, n) == <<n>> \o PreorderKids(H, H.children[n], 1)
PreorderKids(H, ch, i) ==
  IF i > Len(ch) THEN <<>> ELSE Preorder(H, ch[i]) \o PreorderKids(H, ch, i + 1)

\* the heap that holds the objects listed in pre, renumbered in that order
Renumbered(H, pre) ==
  [parent |-> [i \in 1..Len(pre) |->
                 IF H.parent[pre[i]] = NoneRef THEN NoneRef
                 ELSE IndexOf(pre, H.parent[pre[i]])],
   children |-> [i \in 1..Len(pre) |->
                   [j \in 1..Len(H.children[pre[i]]) |->
                      IndexOf(pre, H.children[pre[i]][j])]],
   title |-> [i \in 1..Len(pre) |-> H.title[pre[i]]],
   page_number |-> [i \in 1..Len(pre) |-> H.page_number[pre[i]]]]

\* the objects nothing refers to any more are reclaimed: the heap holds the
\* tree under root, its objects numbered depth first
Reclaim(H, root) == Renumbered(H, Preorder(H, root))

\* the heap becomes H
Becomes(H) ==
  /\ parent' = H.parent
  /\ children' = H.children
  /\ title' = H.title
  /\ page_number' = H.page_number

\* c = BookmarkNode(t); c.page_number = pg; p.add_child(c)
NewBookmarkAt(p, t, pg) ==
  LET c == Len(parent) + 1
  IN  \E H \in {[HeapAddChild(NewObject(Heap, t), p, c) EXCEPT !.page_number[c] = pg]} :
      \E pre \in {Preorder(H, tree)} :
        /\ Becomes(Renumbered(H, pre))
        /\ lastOp' = Returned("add_child", IndexOf(pre, c))
        /\ UNCHANGED <<tree, files>>

\* dst.load_json(text), called op in lastOp; the objects the call drops are
\* reclaimed
LoadJsonAs(op, dst, text) ==
  \E v \in {Loads(text)} :
    /\ IF ~v.ok
       THEN /\ UNCHANGED heap
            /\ lastOp' = Raised(op, dst, "JSONDecodeError")
       ELSE \E r \in {LoadDict(Heap, dst, v.v)} :
            \E pre \in {Preorder(r.H, tree)} :
              /\ Len(pre) <= MaxJsonNodes
              /\ Becomes(Renumbered(r.H, pre))
              /\ lastOp' = IF r.err = "none" THEN Returned(op, IndexOf(pre, dst))
                           ELSE Raised(op, IndexOf(pre, dst), r.err)
    /\ UNCHANGED <<tree, files>>

\* dst.load_json(text) for a text the session read somewhere
LoadJson(dst, text) == LoadJsonAs("load_json", dst, text)

\* dst.load_json(src.get_json())
LoadJsonOf(src, dst) == LoadJsonAs("round_trip", dst, GetJson(Heap, src))

\* the texts the session loads: good ones, ones off the schema, broken ones
Bookmark(t, p, kids) ==
  JObj(<< <<"title", t>>, <<"page_number", p>>, <<"children", kids>> >>)
GoodLeaf == Bookmark(JStr("B"), JInt(3), JArr(<<>>))
GoodValues ==
  { GoodLeaf,
    Bookmark(JNull, JInt(1), JArr(<<GoodLeaf>>)),
    Bookmark(JStr("A"), JInt(2), JArr(<<GoodLeaf, Bookmark(JStr("A"), JInt(1), JArr(<<>>))>>)) }
OffSchemaValues ==
  { JObj(<< <<"page_number", JInt(2)>>, <<"children", JArr(<<>>)>> >>),
    JObj(<< <<"title", JStr("B")>>, <<"children", JArr(<<>>)>> >>),
    JObj(<< <<"title", JStr("B")>>, <<"page_number", JInt(2)>> >>),
    Bookmark(JStr("B"), JStr("2"), JArr(<<>>)),
    Bookmark(JStr("B"), JNull, JArr(<<>>)),
    Bookmark(JStr("B"), JInt(2), JNull),
    JArr(<<>>), JInt(1), JStr("x") }
OffSchemaBelow ==
  { Bookmark(JStr("A"), JInt(2), JArr(<<GoodLeaf, bad>>)) : bad \in OffSchemaValues }
BrokenTexts ==
  { <<>>,
    SubSeq(Dumps(GoodLeaf), 1, Len(Dumps(GoodLeaf)) - 1),
    Dumps(GoodLeaf) \o <<Punct("}")>> }
Texts ==
  {Dumps(x) : x \in GoodValues \cup OffSchemaValues \cup OffSchemaBelow} \cup BrokenTexts

TitlesOfJson == {JStr("A"), JNull}
PagesOfJson == {3}

\* a session that adds bookmarks and copies trees through their JSON text
NextJson ==
  \/ \E p \in Nodes, t \in TitlesOfJson, pg \in PagesOfJson :
       Len(parent) < MaxJsonNodes /\ NewBookmarkAt(p, t, pg)
  \/ \E src \in Nodes, dst \in Nodes : LoadJsonOf(src, dst)

SpecJson == InitTree /\ [][NextJson]_vars

\* a session that adds bookmarks and loads texts it read somewhere
NextLoad ==
  \/ \E p \in Nodes : Len(parent) < MaxJsonNodes /\ NewBookmarkAt(p, JStr("A"), 3)
  \/ \E dst \in Nodes, text \in Texts : LoadJson(dst, text)

SpecLoad == InitTree /\ [][NextLoad]_vars

(***************************************************************************)
(* Claims about JSON.                                                      *)
(***************************************************************************)
RECURSIVE Shape(_, _)
\* the tree under n: titles, page numbers, the children in their order
Shape(H, n) ==
  [title |-> H.title[n], page_number |-> H.page_number[n],
   kids |-> [i \in 1..Len(H.children[n]) |-> Shape(H, H.children[n][i])]]

\* every node under n is the parent of the nodes it lists
Wired(H, n) ==
  \A m \in Range(Preorder(H, n)) : \A c \in Range(H.children[m]) : H.parent[c] = m

\* C1: loading get_json(src) with load_json into any node dst gives dst the
\* title, page number, children (number, order, nesting) of src, and every
\* rebuilt child's parent is the node that lists it.
C1_JsonRoundTrip ==
  [][\A src \in Nodes, dst \in Nodes :
       LoadJsonOf(src, dst) =>
         /\ lastOp'.raised = "none"
         /\ Shape(HeapAfter, lastOp'.n) = Shape(Heap, src)
         /\ Wired(HeapAfter, lastOp'.n)]_vars

\* the text of a node x -> y was loaded into the root, which had the child x
C1_Witness ==
  /\ lastOp.op = "round_trip" /\ lastOp.raised = "none"
  /\ lastOp.n = tree
  /\ title[tree] = JNull /\ page_number[tree] = 3
  /\ Len(children[tree]) = 1
  /\ title[children[tree][1]] = JStr("A")
  /\ parent[children[tree][1]] = tree

\* C9: a load_json that fails leaves the tree as it was: no title, page
\* number or children sequence of the target has changed.
C9_LoadAllOrNothing ==
  [][\A dst \in Nodes, text \in Texts :
       (LoadJson(dst, text) /\ lastOp'.raised # "none") =>
         Shape(HeapAfter, tree) = Shape(Heap, tree)]_vars

(***************************************************************************)
(* The PDF bridge: load_from_pdf, add_to_pdf, write_pdf.                   *)
(***************************************************************************)
\* a node of the page tree: a /Pages node with its /Kids, or a /Page
PageObject(id) == [type |-> "/Page", idnum |-> id, kids |-> <<>>]
PagesObject(id, kids) == [type |-> "/Pages", idnum |-> id, kids |-> kids]

\* an item of getOutlines(): a Destination (title, page), or a nested list
Destination(t, pg) == [kind |-> "dest", title |-> t, page |-> pg, items |-> <<>>]
NestedList(items) == [kind |-> "list", title |-> <<>>, page |-> 0, items |-> items]

RECURSIVE SetupPageIdToNum(_, _), SetupKids(_, _, _)
\* _setup_page_id_to_num: st.result is _result, st.num is len(_num_pages)
SetupPageIdToNum(pages, st) ==
  IF pages.type = "/Pages" THEN SetupKids(pages.kids, 1, st)
  ELSE IF pages.type = "/Page" THEN [st EXCEPT !.num = @ + 1]
  ELSE st
\* the loop over pages["/Kids"] from its i-th round on
SetupKids(kids, i, st) ==
  IF i > Len(kids) THEN st
  ELSE SetupKids(kids, i + 1,
         SetupPageIdToNum(kids[i],
           [st EXCEPT !.result = (kids[i].idnum :> st.num) @@ @]))

\* pg_id_num_map of a document
PageIdNumMap(doc) == SetupPageIdToNum(doc.pages, [result |-> <<>>, num |-> 0]).result

\* a title as the reader gives it: [bytes, chars], a ByteStringObject or a
\* text string, chars its characters, "FF" a byte that is no UTF-8
RECURSIVE Decode(_)
\* bytes.decode("utf-8", "backslashreplace")
Decode(chars) ==
  IF chars = <<>> THEN <<>>
  ELSE (IF Head(chars) = "FF" THEN <<"\\", "x", "f", "f">> ELSE <<Head(chars)>>)
       \o Decode(Tail(chars))

RECURSIVE Strip(_)
\* str.strip(): the blanks at both ends dropped
Strip(chars) ==
  IF chars = <<>> THEN <<>>
  ELSE IF Head(chars) = " " THEN Strip(Tail(chars))
  ELSE IF chars[Len(chars)] = " " THEN Strip(SubSeq(chars, 1, Len(chars) - 1))
  ELSE chars

\* the title _generate_tree gives the node of an outline item
StrippedTitle(raw) ==
  JStr(Strip(IF raw.bytes THEN Decode(raw.chars) ELSE raw.chars))

\* a slip of _generate_tree: the position in the document taken as it is
PageNumberOfPosition(m, id) == m[id]

\* the page number _generate_tree gives the node of a destination
PageNumberOf(m, id) == m[id] + 1

RECURSIVE GenerateTree(_, _, _, _, _, _)
\* _generate_tree(node, outlines) from the i-th item on, cur being
\* current_node: [H, err]
GenerateTree(H, node, outlines, i, cur, m) ==
  IF i > Len(outlines) THEN [H |-> H, err |-> "none"]
  ELSE IF outlines[i].kind # "list"
  THEN LET c == Len(H.parent) + 1
           H1 == NewObject(H, StrippedTitle(outlines[i].title))
       IN  IF outlines[i].page \notin DOMAIN m THEN [H |-> H1, err |-> "KeyError"]
           ELSE IF node = NoneRef THEN [H |-> H1, err |-> "AttributeError"]
           ELSE GenerateTree(
                  HeapAddChild([H1 EXCEPT !.page_number[c] = PageNumberOf(m, outlines[i].page)],
                               node, c),
                  node, outlines, i + 1, c, m)
  ELSE LET r == GenerateTree(H, cur, outlines[i].items, 1, NoneRef, m)
       IN  IF r.err # "none" THEN r
           ELSE GenerateTree(r.H, node, outlines, i + 1, cur, m)

\* a heap with one object, BookmarkNode("Root")
RootOnly == NewObject([parent |-> <<>>, children |-> <<>>, title |-> <<>>,
                       page_number |-> <<>>], JStr("Root"))

\* load_pdf(filename): a new tree, loaded from the document's outline
LoadPdf(doc) ==
  \E r \in {GenerateTree(RootOnly, 1, doc.outlines, 1, NoneRef, PageIdNumMap(doc))} :
    /\ Becomes(Reclaim(r.H, 1))
    /\ tree' = 1
    /\ pdfreader' = doc
    /\ lastOp' = IF r.err = "none" THEN Returned("load_pdf", 1)
                 ELSE Raised("load_pdf", 1, r.err)
    /\ UNCHANGED <<output, saved>>

\* a slip of add_to_pdf: the page number passed as it is
BookmarkPageAsStored(p) == p

\* the zero-based page index add_to_pdf passes to addBookmark
BookmarkPage(p) == p - 1

RECURSIVE AddBookmark(_, _, _, _), AddBookmarkKids(_, _, _, _, _)
\* _add_bookmark(node, pdfwriter, parent): W is the outline of the writer,
\* an entry's handle is its position in W (0: no parent, top level)
AddBookmark(H, node, W, up) ==
  IF H.parent[node] # NoneRef
  THEN LET W1 == Append(W, [title |-> H.title[node],
                            page |-> BookmarkPage(H.page_number[node]),
                            parent |-> up])
       IN  AddBookmarkKids(H, H.children[node], 1, W1, Len(W1))
  ELSE AddBookmarkKids(H, H.children[node], 1, W, 0)
AddBookmarkKids(H, ch, i, W, pdf_node) ==
  IF i > Len(ch) THEN W
  ELSE AddBookmarkKids(H, ch, i + 1, AddBookmark(H, ch[i], W, pdf_node), pdf_node)

RECURSIVE FlattenedPages(_), FlattenedKids(_, _)
\* the pages of the document in document order (what getPage indexes)
FlattenedPages(pages) ==
  IF pages.type = "/Page" THEN <<pages.idnum>> ELSE FlattenedKids(pages.kids, 1)
FlattenedKids(kids, i) ==
  IF i > Len(kids) THEN <<>>
  ELSE FlattenedPages(kids[i]) \o FlattenedKids(kids, i + 1)

\* range(a, b + 1) as a sequence
IntRange(a, b) == [i \in 1..(b - a + 1) |-> a + i - 1]

\* the indexes write_pdf passes to getPage
CopiedIndexes(src, start_page, end_page) ==
  LET first == IF start_page.k = "null" THEN 0 ELSE start_page.v - 1
      last == IF end_page.k = "null" THEN Len(src) - 1 ELSE end_page.v - 1
  IN  IntRange(first, last)

\* save_pdf(filename, start_page, end_page), write_pdf with it
SavePdf(start_page, end_page) ==
  LET called == [Returned("save_pdf", tree) EXCEPT !.range = <<start_page, end_page>>]
      src == FlattenedPages(pdfreader.pages)
      idx == CopiedIndexes(src, start_page, end_page)
  IN  /\ IF ~pdfreader.open
         THEN /\ lastOp' = [called EXCEPT !.printed = TRUE]
              /\ UNCHANGED output
         \* getPage indexes a list: a negative index counts from the end
         ELSE IF \E i \in 1..Len(idx) : idx[i] >= Len(src) \/ idx[i] < 0 - Len(src)
         THEN /\ lastOp' = [called EXCEPT !.raised = "IndexError"]
              /\ UNCHANGED output
         ELSE /\ output' = [pages |-> [i \in 1..Len(idx) |->
                                          src[(idx[i] % Len(src)) + 1]],
                            bookmarks |-> AddBookmark(Heap, tree, <<>>, 0),
                            written |-> TRUE]
              /\ lastOp' = called
      /\ UNCHANGED <<heap, tree, pdfreader, saved>>

\* save_bookmarks(json_filename)
SaveBookmarks ==
  /\ IF tree = NoneRef
     \* the file is opened for writing before tree.get_json() fails
     THEN /\ lastOp' = Raised("save_bookmarks", tree, "AttributeError")
          /\ saved' = <<>>
     ELSE /\ saved' = GetJson(Heap, tree)
          /\ lastOp' = Returned("save_bookmarks", tree)
  /\ UNCHANGED <<heap, tree, pdfreader, output>>

\* the documents of the runs ------------------------------------------------
\* the object numbers of the pages (not in document order) and of a
\* destination that is no page of the document
PageId(i) == 50 - 7 * i
DanglingId == PageId(0)
\* the object number of the /Pages node over pages lo..hi, d levels up
PagesId(lo, hi, d) == 100 * (d + 1) + 10 * lo + hi

RECURSIVE Forests(_, _, _)
\* the /Kids sequences over the pages lo..hi, nested at most d deep
Forests(lo, hi, d) ==
  IF lo > hi THEN {<<>>}
  ELSE UNION { { <<first>> \o rest :
                   first \in (IF m = lo THEN {PageObject(PageId(lo))} ELSE {})
                          \cup (IF d > 0
                                THEN {PagesObject(PagesId(lo, m, d), kids) :
                                        kids \in Forests(lo, m, d - 1)}
                                ELSE {}),
                   rest \in Forests(m + 1, hi, d) } : m \in lo..hi }

\* page trees of n pages: flat, and with one level of inner /Pages nodes
FlatPageTree(n) == PagesObject(PagesId(0, 0, 0), [i \in 1..n |-> PageObject(PageId(i))])
PageTrees(n) == {PagesObject(PagesId(0, 0, 0), kids) : kids \in Forests(1, n, 1)}

\* titles as the reader gives them, each with the text it reads as
RawTitles ==
  << [bytes |-> FALSE, chars |-> <<"I", "n", "t", "r", "o">>,
      reads |-> <<"I", "n", "t", "r", "o">>],
     [bytes |-> FALSE, chars |-> <<" ", "S", "u", "b", " ", " ">>,
      reads |-> <<"S", "u", "b">>],
     [bytes |-> TRUE, chars |-> <<"E", "n", "d", "FF", " ">>,
      reads |-> <<"E", "n", "d", "\\", "x", "f", "f">>] >>
RawTitle(k) == RawTitles[((k - 1) % Len(RawTitles)) + 1]

\* where the k-th entry of an outline points in a document of n pages: the
\* entries go round the pages from page 1 + rot on; entry bad points nowhere
DestinationsOf(n, e) ==
  {[rot |-> r, bad |-> 0] : r \in 0..(n - 1)} \cup {[rot |-> 0, bad |-> k] : k \in 1..e}
DestId(k, v, n) ==
  IF k = v.bad THEN DanglingId ELSE PageId(((k - 1 + v.rot) % n) + 1)

RECURSIVE Outlines(_, _, _, _, _)
\* the outlines with the entries k .. k+e-1, nested at most d deep
Outlines(k, e, d, v, n) ==
  IF e = 0 THEN {<<>>}
  ELSE { <<Destination(RawTitle(k), DestId(k, v, n))>> \o rest :
           rest \in Outlines(k + 1, e - 1, d, v, n) }
       \cup (IF d = 0 THEN {}
             ELSE UNION { { <<NestedList(sub)>> \o rest :
                              sub \in Outlines(k, m, d - 1, v, n),
                              rest \in Outlines(k + m, e - m, d, v, n) } : m \in 1..e })

Document(pages, outlines) == [pages |-> pages, outlines |-> outlines, open |-> TRUE]

\* the documents of n pages and e entries pointing as v says: every page
\* tree with the outlines nested one deep, the flat page tree with those
\* nested two deep
Documents(n, e, v) ==
  { Document(pt, o) : pt \in PageTrees(n), o \in Outlines(1, e, 1, v, n) }
    \cup { Document(FlatPageTree(n), o) : o \in Outlines(1, e, 2, v, n) }

RECURSIVE WellNested(_)
\* every nested sequence comes after an entry of the sequence it lies in
WellNested(items) ==
  \A i \in 1..Len(items) :
    items[i].kind = "list" =>
      /\ \E j \in 1..(i - 1) : items[j].kind # "list"
      /\ WellNested(items[i].items)

\* nothing loaded yet: tree = None, pdfreader = None
InitEmpty ==
  /\ parent = <<>> /\ children = <<>> /\ title = <<>> /\ page_number = <<>>
  /\ tree = NoneRef
  /\ NoFiles
  /\ lastOp = Returned("init", NoneRef)

\* a session that loads a document and saves its bookmarks as JSON; load_pdf
\* replaces tree and pdfreader whatever they were, so one load a session
NextImport ==
  \/ /\ ~pdfreader.open
     /\ \E n \in 1..MaxPages, e \in 0..MaxEntries :
          \E v \in DestinationsOf(n, e) :
            \E doc \in Documents(n, e, v) : LoadPdf(doc)
  \/ SaveBookmarks

SpecImport == InitEmpty /\ [][NextImport]_vars

(***************************************************************************)
(* Claims on the import from a PDF document.                               *)
(***************************************************************************)
RECURSIVE EntriesOf(_, _)
\* the entries of an outline in document order, each with the number of
\* sequences it lies in (1 for the top level)
EntriesOf(items, d) ==
  IF items = <<>> THEN <<>>
  ELSE (IF Head(items).kind = "list" THEN EntriesOf(Head(items).items, d + 1)
        ELSE <<[title |-> Head(items).title, page |-> Head(items).page,
                depth |-> d]>>)
       \o EntriesOf(Tail(items), d)

RECURSIVE DepthOf(_)
\* how far node n is below the root of its tree
DepthOf(n) == IF parent[n] = NoneRef THEN 0 ELSE 1 + DepthOf(parent[n])

\* the nodes under the root, parents before children, siblings in order
NodesOfTree ==
  LET pre == Preorder(Heap, tree)
  IN  [i \in 1..(Len(pre) - 1) |->
         [title |-> title[pre[i + 1]], page_number |-> page_number[pre[i + 1]],
          depth |-> DepthOf(pre[i + 1])]]

\* the one-based position of the page with object number id in the document
PositionOf(doc, id) == IndexOf(FlattenedPages(doc.pages), id)

\* a node per entry, in the entries' order and at the entries' depth, with
\* the stripped text of the title and the position of the destination plus 1
Imported ==
  LET es == EntriesOf(pdfreader.outlines, 1)
  IN  /\ NodesOfTree = [i \in 1..Len(es) |->
                          [title |-> JStr(es[i].title.reads),
                           page_number |-> (PositionOf(pdfreader, es[i].page) - 1) + 1,
                           depth |-> es[i].depth]]
      /\ Wired(Heap, tree)
      /\ title[tree] = JStr("Root")

\* every entry of the outline points to a page of the document
DestinationsArePages ==
  LET es == EntriesOf(pdfreader.outlines, 1)
  IN  \A i \in 1..Len(es) : PositionOf(pdfreader, es[i].page) > 0

\* C7 as stated: for every outline whose entries point to pages of the
\* document, load_from_pdf makes one node per entry, in order, with the
\* stripped title and the destination's zero-based position plus 1, the
\* entries of a nested sequence under the entry before that sequence.
C7_ImportAsStated ==
  (lastOp.op = "load_pdf" /\ DestinationsArePages)
    => (lastOp.raised = "none" /\ Imported)

\* C7, amended: the same for the outlines in which every nested sequence
\* comes after an entry of its enclosing sequence.
C7_Import ==
  (lastOp.op = "load_pdf" /\ DestinationsArePages /\ WellNested(pdfreader.outlines))
    => (lastOp.raised = "none" /\ Imported)

\* a document with inner /Pages nodes was imported: an entry of a nested
\* sequence lies two below the root, and some node is on a later page
C7_Witness ==
  /\ lastOp = Returned("load_pdf", tree)
  /\ WellNested(pdfreader.outlines) /\ DestinationsArePages
  /\ \E i \in 1..Len(pdfreader.pages.kids) : pdfreader.pages.kids[i].type = "/Pages"
  /\ \E n \in Nodes : DepthOf(n) = 2 /\ page_number[n] = 3 /\ title[n] = JStr(<<"S", "u", "b">>)

RECURSIVE PagesWritten(_), PagesWrittenKids(_, _)
\* the page_number fields of a dictionary of get_dict, parents first
PagesWritten(d) ==
  <<Lookup(d.v, "page_number").v>> \o PagesWrittenKids(Lookup(d.v, "children").v, 1)
PagesWrittenKids(a, i) ==
  IF i > Len(a) THEN <<>> ELSE PagesWritten(a[i]) \o PagesWrittenKids(a, i + 1)

\* C10: the page_number get_dict writes for a node is the one-based number
\* of the node's destination page, the value load_from_pdf gave the node.
C10_JsonPageNumbers ==
  (lastOp = Returned("save_bookmarks", tree) /\ pdfreader.open
     /\ DestinationsArePages /\ WellNested(pdfreader.outlines))
    => LET es == EntriesOf(pdfreader.outlines, 1)
           written == Tail(PagesWritten(Loads(saved).v))
       IN  /\ written = [i \in 1..Len(es) |-> PositionOf(pdfreader, es[i].page)]
           /\ written = [i \in 1..Len(es) |-> NodesOfTree[i].page_number]

(***************************************************************************)
(* Saving the document with its bookmarks, perhaps trimmed.                *)
(***************************************************************************)
\* the documents saved: flat page trees, entries pointing to pages 1, 2, ..
ExportDocuments(n, e) ==
  { Document(FlatPageTree(n), o) :
      o \in {x \in Outlines(1, e, 2, [rot |-> 0, bad |-> 0], n) : WellNested(x)} }

\* start_page and end_page: None, or a number (also off the document)
PageArguments == {JNull} \cup {JInt(k) : k \in 0..(MaxPages + 1)}

\* a session that loads a document and saves it, each call of save_pdf to a
\* file of its own
NextExport ==
  \/ /\ ~pdfreader.open
     /\ \E n \in 1..MaxPages, e \in 0..MaxEntries :
          \E doc \in ExportDocuments(n, e) : LoadPdf(doc)
  \/ /\ ~output.written
     /\ \E start_page \in PageArguments, end_page \in PageArguments :
          SavePdf(start_page, end_page)

SpecExport == InitEmpty /\ [][NextExport]_vars

\* the pages start_page..end_page of the document, the bounds counted from 1
\* and defaulting to the first and last page
FirstPage == IF lastOp.range[1].k = "null" THEN 1 ELSE lastOp.range[1].v
LastPage ==
  IF lastOp.range[2].k = "null" THEN Len(FlattenedPages(pdfreader.pages))
  ELSE lastOp.range[2].v
PagesAsked == SubSeq(FlattenedPages(pdfreader.pages), FirstPage, LastPage)

\* an entry per node under the root, parents first and siblings in order,
\* each under the entry of the node's parent (0: at the top level)
EntriesAsked ==
  LET pre == Tail(Preorder(Heap, tree))
  IN  [i \in 1..Len(pre) |->
         [title |-> title[pre[i]],
          page |-> page_number[pre[i]] - 1,
          parent |-> IF parent[pre[i]] = tree THEN 0
                     ELSE IndexOf(pre, parent[pre[i]])]]

\* C8: write_pdf with a range start_page..end_page of pages of the document
\* (a bound left out being the first, the last page) copies exactly those
\* pages in order, and whatever the range writes one outline entry per
\* node under the root, parents first, with the node's title and the page
\* index page_number - 1, under the entry of the node's parent.
C8_ExportTrimmed ==
  (lastOp.op = "save_pdf" /\ pdfreader.open
     /\ 1 <= FirstPage /\ FirstPage <= LastPage
     /\ LastPage <= Len(FlattenedPages(pdfreader.pages)))
    => /\ lastOp.raised = "none" /\ ~lastOp.printed
       /\ output.written
       /\ output.pages = PagesAsked
       /\ Len(output.pages) = LastPage - FirstPage + 1
       /\ output.bookmarks = EntriesAsked

\* Intro(1) -> Sub(2), End(3) was saved with the pages 2..3 of three: two
\* pages, and the entries still point to the page indexes 0, 1, 2
C8_Witness ==
  /\ lastOp.op = "save_pdf" /\ lastOp.range = <<JInt(2), JInt(3)>>
  /\ pdfreader.open
  /\ Len(FlattenedPages(pdfreader.pages)) = 3
  /\ output.pages = <<PageId(2), PageId(3)>>
  /\ output.bookmarks = << [title |-> JStr(RawTitle(1).reads), page |-> 0, parent |-> 0],
                           [title |-> JStr(RawTitle(2).reads), page |-> 1, parent |-> 1],
                           [title |-> JStr(RawTitle(3).reads), page |-> 2, parent |-> 0] >>
====
